---- MODULE Spec2Model ----
(***************************************************************************)
(* State-machine model of Firmware/rtos_pilot/sensors.c: the 50/250 Hz     *)
(* acquisition task (sensors_task) and the GPS task (sensors_gps_task),    *)
(* together with the collaborators they call (ADC, SCP1000, BMP085, the    *)
(* SPI token shared with the dataflash, the GPS parser, led2, gluonscript).*)
(*                                                                         *)
(* Units.  Floats are modelled in fixed point with C-style truncation:     *)
(*   heights in metres, speeds in m/s, temperatures in 0.1 degC,           *)
(*   dt_since_last_height in loop periods (20 ms, or 4 ms on quadrocopter).*)
(* An ADC sample is identified by <<conversion, channel>>: the conversion  *)
(* that produced it and the channel it was read from.                      *)
(***************************************************************************)
EXTENDS Integers, Sequences, FiniteSets, TLC

\* ------------------------------------------------------------- constants
V01J == 1
V01N == 2
V01O == 3
CounterLimit == 65000
LowRateDiv == 50
MagDiv == 25
HeightLimit == 30000
MinClamp == 5
MinSats == 4
CruisingSpeed == 12
PollFirst == 10
PollLast == 1000

\* ---------------------------------------------------------------- bounds
\* conversions are numbered modulo TickMod (the current, previous and next one differ)
TickMod == 3
\* dt_since_last_height saturates at MaxDt periods
MaxDt == 2
\* loop iterations are taken while low_update_counter < MaxCounter (SpecSensors)
MaxCounter == 100
\* signalled GPS cycles in a row (SpecGps)
MaxRun == 7

HardwareVersions == {V01J, V01N, V01O}
\* what the barometers can return (0 is also the zero-initialised value)
Pressures == {0, 1000}
Temps == {0, 215}
\* what scp1000_pressure_to_height can return: one bad reading, two plausible heights
Heights == {-31000, 1, 2}
NoSample == <<-1, -1>>

\* scp1000_pressure_to_height(pressure, temperature) is a pure function that this
\* file only calls.  Its value at the zero-initialised inputs is left open (any
\* of Heights); at the other inputs one table covers the bad and the plausible
\* results.
HeightModels ==
    {[x \in Pressures \X Temps |->
        IF x = <<0, 0>> THEN h00
        ELSE IF x = <<0, 215>> THEN -31000
        ELSE IF x = <<1000, 0>> THEN 1 ELSE 2] : h00 \in Heights}

VARIABLES
    HARDWARE_VERSION,      \* extern int HARDWARE_VERSION
    quad,                  \* build variant: ENABLE_QUADROCOPTER defined
    p2h,                   \* scp1000_pressure_to_height, a pure function
    sensor_data,           \* struct SensorData sensor_data
    low_update_counter,    \* sensors_task local
    last_height,           \* sensors_task local
    dt_since_last_height,  \* sensors_task local
    temperature_10,        \* sensors_task local
    sensors_alive,         \* FALSE once the task has deleted itself
    adc_conv,              \* the conversion whose samples the ADC buffer holds
    tick_no,               \* number (mod TickMod) of the current loop iteration
    bmp085_pending,        \* the BMP085 conversion started last: none/temp/pressure
    xSpiSemaphore,         \* holder of the SPI token: free / dataflash
    simulation_mode,       \* control_state.simulation_mode
    calls,                 \* collaborator calls made by the last loop iteration
    since_low_rate,        \* loop iterations since the last one that took line 130
    gps_pc,                \* position of sensors_gps_task
    i,                     \* sensors_gps_task local
    led2,                  \* on/off
    xGpsSemaphore,         \* binary semaphore given by the uart2 interrupt
    gps_parsed,            \* the parser's latest sentence content
    airborne,              \* navigation_data.airborne
    gps_calls,             \* collaborator calls made by the last GPS cycle
    run,                   \* signalled cycles in a row (bounds the model)
    polls,                 \* polls made by the for loop of line 254 while it runs
    poll_delay             \* ms spent in vTaskDelay (line 257) by that loop while it runs

cfgvars == <<HARDWARE_VERSION, quad, p2h>>
svars == <<low_update_counter, last_height, dt_since_last_height, temperature_10,
           sensors_alive, adc_conv, tick_no, bmp085_pending, calls, since_low_rate>>
hvars == <<polls, poll_delay>>
gvars == <<gps_pc, i, led2, xGpsSemaphore, gps_calls, run, hvars>>
envvars == <<xSpiSemaphore, simulation_mode, gps_parsed, airborne>>
vars == <<cfgvars, sensor_data, svars, gvars, envvars>>

\* ---------------------------------------------------------------- helpers
Abs(x) == IF x < 0 THEN -x ELSE x

MAX(a, b) == IF a > b THEN a ELSE b

\* C division (truncates toward zero), b > 0
TDiv(a, b) == IF a >= 0 THEN a \div b ELSE -((-a) \div b)

Range(s) == {s[k] : k \in 1..Len(s)}

\* position of the first call named c in the log s, 0 if absent
RECURSIVE FirstAt(_, _, _)
FirstAt(s, c, k) == IF k > Len(s) THEN 0 ELSE IF s[k] = c THEN k ELSE FirstAt(s, c, k + 1)

Call(m, c) == [m EXCEPT !.calls = Append(@, c)]

\* ------------------------------------------------------------ ADC driver
\* adc_get_channel(n): channel n of the conversion the buffer holds
adc_get_channel(m, n) == <<m.adc, n>>

\* adc_start(): a new conversion, numbered by the loop iteration that requests it
adc_start(m) == [m EXCEPT !.adc = m.tick, !.calls = Append(@, "adc_start")]

\* ------------------------------------------------- sensors.c, lines 199-224
read_raw_sensor_data(m) ==
    [m EXCEPT !.sd.acc_x_raw = adc_get_channel(m, 6),
              !.sd.acc_z_raw = adc_get_channel(m, 1),
              !.sd.acc_y_raw = adc_get_channel(m, 0),
              !.sd.gyro_x_raw = adc_get_channel(m, 4),
              !.sd.gyro_y_raw = adc_get_channel(m, 7),
              !.sd.gyro_z_raw = adc_get_channel(m, 5),
              !.sd.idg500_vref = adc_get_channel(m, 3),
              !.calls = @ \o <<"adc_get_channel", "adc_get_channel", "adc_get_channel",
                               "adc_get_channel", "adc_get_channel", "adc_get_channel",
                               "adc_get_channel">>]

\* a scaled value is identified by the raw sample it was computed from
Scaled(sample) == [of |-> sample]

scale_raw_sensor_data(m) ==
    [m EXCEPT !.sd.acc_x = Scaled(m.sd.acc_x_raw),
              !.sd.acc_y = Scaled(m.sd.acc_y_raw),
              !.sd.acc_z = Scaled(m.sd.acc_z_raw),
              !.sd.p = Scaled(m.sd.gyro_x_raw),
              !.sd.q = Scaled(m.sd.gyro_y_raw),
              !.sd.r = Scaled(m.sd.gyro_z_raw)]

\* ------------------------------------------------- sensors.c, lines 113-123
\* counter step per loop iteration: 1 at 250 Hz, 5 at 50 Hz
CounterStep(q) == IF q THEN 1 ELSE 5

\* m/s of climb per metre of height change per loop period (1/0.004 s, 1/0.02 s)
RatePerPeriod(q) == IF q THEN 250 ELSE 50

\* mutant: lines 122-123 left out, the counter left to wrap as an unsigned 16-bit
LoopHeadNoReset(m, q) ==
    LET c == (m.counter + CounterStep(q)) % 65536
    IN [m EXCEPT !.dt = IF @ < MaxDt THEN @ + 1 ELSE @,
                 !.counter = c,
                 !.tick = (@ + 1) % TickMod,
                 !.calls = <<>>]

LoopHead(m, q) ==
    LET c == (m.counter + CounterStep(q)) % 65536
    IN [m EXCEPT !.dt = IF @ < MaxDt THEN @ + 1 ELSE @,
                 !.counter = IF c > CounterLimit THEN 0 ELSE c,
                 !.tick = (@ + 1) % TickMod,
                 !.calls = <<>>]

\* ------------------------------------------------- sensors.c, lines 132-133
SimulationDelete(m) == [m EXCEPT !.alive = FALSE, !.calls = Append(@, "vTaskDelete")]

\* ------------------------------------------------- sensors.c, line 135
ReadBattery(m) ==
    [m EXCEPT !.sd.battery_voltage_10 = adc_get_channel(m, 8),
              !.calls = Append(@, "adc_get_channel")]

\* ------------------------------------------------- sensors.c, lines 138-154
Bmp085Temperature(m, in) ==
    [m EXCEPT !.sd.temperature_10 = in.t,
              !.sd.temperature = in.t,
              !.bmp = "pressure",
              !.calls = @ \o <<"bmp085_read_temp", "bmp085_start_convert_pressure">>]

Bmp085Pressure(m, in, h) ==
    [m EXCEPT !.sd.pressure = in.p,
              !.sd.pressure_height = h[in.p, m.sd.temperature],
              !.bmp = "temp",
              !.calls = @ \o <<"bmp085_read_pressure", "bmp085_start_convert_temp">>]

Bmp085Step(m, in, h) ==
    IF (m.counter \div LowRateDiv) % 2 = 0
    THEN Bmp085Temperature(m, in)
    ELSE Bmp085Pressure(m, in, h)

\* ------------------------------------------------- sensors.c, lines 130-156
LowRateStep(m, in, hw, h) ==
    LET m1 == ReadBattery(m)
    IN IF hw >= V01O THEN Bmp085Step(m1, in, h) ELSE m1

\* ------------------------------------------------- sensors.c, lines 162-167
\* mutant: lines 164-166 outside the if of line 162: the sensor is read and the
\* token given whether or not it was obtained
Scp1000ReadUnguarded(m, in) ==
    [m EXCEPT !.sd.pressure = in.p,
              !.sd.temperature = in.t,
              !.calls = @ \o <<IF in.spi_free THEN "xSemaphoreTake" ELSE "xSemaphoreTake_failed",
                               "scp1000_get_pressure", "scp1000_get_temperature",
                               "xSemaphoreGive">>]

Scp1000Read(m, in) ==
    IF in.spi_free
    THEN [m EXCEPT !.sd.pressure = in.p,
                   !.sd.temperature = in.t,
                   !.calls = @ \o <<"xSemaphoreTake", "scp1000_get_pressure",
                                    "scp1000_get_temperature", "xSemaphoreGive">>]
    ELSE Call(m, "xSemaphoreTake_failed")

\* ------------------------------------------------- sensors.c, lines 169-171
HeightGate(height, previous) ==
    IF height > -HeightLimit /\ height < HeightLimit THEN height ELSE previous

\* ------------------------------------------------- sensors.c, line 172
Smoothed(v, height, last, dt, q) ==
    TDiv(v * 8, 10) + TDiv(TDiv((height - last) * RatePerPeriod(q), dt) * 2, 10)

\* mutant: line 174 without fabs
VerticalSpeedCheckSigned(v, speed_ms) ==
    IF v > MAX(MinClamp, speed_ms) THEN 0 ELSE v

\* ------------------------------------------------- sensors.c, lines 174-175
VerticalSpeedCheck(v, speed_ms) ==
    IF Abs(v) > MAX(MinClamp, speed_ms) THEN 0 ELSE v

\* mutant: the validity check of lines 174-175 also writes the limit it used
\* into gps.speed_ms
Scp1000UpdateWritesSpeed(m, q, h) ==
    LET height == h[m.sd.pressure, m.sd.temperature]
        ph == HeightGate(height, m.sd.pressure_height)
        v == Smoothed(m.sd.vertical_speed, ph, m.last_height, m.dt, q)
    IN [m EXCEPT !.temperature_10 = (m.sd.temperature \div 10) * 10,
                 !.sd.pressure_height = ph,
                 !.sd.gps.speed_ms = MAX(MinClamp, m.sd.gps.speed_ms),
                 !.sd.vertical_speed = VerticalSpeedCheck(v, m.sd.gps.speed_ms),
                 !.last_height = ph,
                 !.dt = 0]

\* ------------------------------------------------- sensors.c, lines 168-178
Scp1000Update(m, q, h) ==
    LET height == h[m.sd.pressure, m.sd.temperature]
        ph == HeightGate(height, m.sd.pressure_height)
        v == Smoothed(m.sd.vertical_speed, ph, m.last_height, m.dt, q)
    IN [m EXCEPT !.temperature_10 = (m.sd.temperature \div 10) * 10,
                 !.sd.pressure_height = ph,
                 !.sd.vertical_speed = VerticalSpeedCheck(v, m.sd.gps.speed_ms),
                 !.last_height = ph,
                 !.dt = 0]

\* ------------------------------------------------- sensors.c, lines 157-180
Scp1000Step(m, in, hw, q, h) ==
    IF hw < V01O
    THEN LET m1 == Call(m, "scp1000_dataready")
         IN IF in.dataready THEN Scp1000Update(Scp1000Read(m1, in), q, h) ELSE m1
    ELSE m

\* ------------------------------------------------- sensors.c, lines 184-195
\* (F1E_STEERING is taken as not defined)
LoopTail(m, q) ==
    LET m1 == IF q /\ m.counter % MagDiv = 0
              THEN [m EXCEPT !.sd.magnetometer_raw = m.tick,
                             !.calls = Append(@, "hmc5843_read")]
              ELSE m
    IN Call(m1, "ahrs_filter")

\* mutant: lines 124 and 126 swapped, the conversion restarted before the read
LoopBodyStartsFirst(m, in, hw, q, h) ==
    LET m1 == scale_raw_sensor_data(read_raw_sensor_data(adc_start(LoopHead(m, q))))
    IN IF m1.counter % LowRateDiv = 0
       THEN IF in.sim
            THEN SimulationDelete(m1)
            ELSE LoopTail(LowRateStep(m1, in, hw, h), q)
       ELSE LoopTail(Scp1000Step(m1, in, hw, q, h), q)

\* mutant: the SPI token taken with an unbounded wait: an iteration that finds the
\* token held elsewhere is suspended at line 162 and does not come back
LoopBodyBlocking(m, in, hw, q, h) ==
    LET m1 == scale_raw_sensor_data(adc_start(read_raw_sensor_data(LoopHead(m, q))))
    IN IF m1.counter % LowRateDiv = 0
       THEN IF in.sim
            THEN SimulationDelete(m1)
            ELSE LoopTail(LowRateStep(m1, in, hw, h), q)
       ELSE IF hw < V01O /\ in.dataready /\ ~in.spi_free
            THEN [Call(Call(m1, "scp1000_dataready"), "xSemaphoreTake_failed")
                  EXCEPT !.alive = FALSE]
            ELSE LoopTail(Scp1000Step(m1, in, hw, q, h), q)

\* ------------------------------------------------- sensors.c, lines 111-196
LoopBody(m, in, hw, q, h) ==
    LET m1 == scale_raw_sensor_data(adc_start(read_raw_sensor_data(LoopHead(m, q))))
    IN IF m1.counter % LowRateDiv = 0
       THEN IF in.sim
            THEN SimulationDelete(m1)
            ELSE LoopTail(LowRateStep(m1, in, hw, h), q)
       ELSE LoopTail(Scp1000Step(m1, in, hw, q, h), q)

\* ------------------------------------------------- sensors.c, lines 68-197
\* one iteration of the task's for(;;) loop; the barometer in use returns a
\* pressure of ps and a temperature of ts
SensorsTask(ps, ts) ==
    /\ sensors_alive
    /\ \E dataready \in BOOLEAN, p \in ps, t \in ts :
         LET m0 == [sd |-> sensor_data, counter |-> low_update_counter,
                    last_height |-> last_height, dt |-> dt_since_last_height,
                    temperature_10 |-> temperature_10, alive |-> TRUE,
                    adc |-> adc_conv, tick |-> tick_no, bmp |-> bmp085_pending,
                    calls |-> calls]
             in == [dataready |-> dataready, p |-> p, t |-> t,
                    sim |-> simulation_mode, spi_free |-> (xSpiSemaphore = "free")]
         IN \E m1 \in {LoopBody(m0, in, HARDWARE_VERSION, quad, p2h)} :
            /\ sensor_data' = m1.sd
            /\ low_update_counter' = m1.counter
            /\ last_height' = m1.last_height
            /\ dt_since_last_height' = m1.dt
            /\ temperature_10' = m1.temperature_10
            /\ sensors_alive' = m1.alive
            /\ adc_conv' = m1.adc
            /\ tick_no' = m1.tick
            /\ bmp085_pending' = m1.bmp
            /\ calls' = m1.calls
            /\ since_low_rate' = IF m1.counter % LowRateDiv = 0 THEN 0
                                  ELSE since_low_rate + 1
    /\ UNCHANGED <<cfgvars, gvars, envvars>>

sensors_task == SensorsTask(Pressures, Temps)

\* ------------------------------------------------------------ GPS parser
GpsStatus == {"EMPTY", "VOID", "ACTIVE"}

\* the sentences the receiver can deliver
Fixes ==
    [status : {"VOID", "ACTIVE"}, latitude_rad : {1}, longitude_rad : {1},
     speed_ms : {2, 20}, satellites_in_view : {3, 4, 6}]

\* the gps struct before the first sentence: zero-initialised, status EMPTY
NoFix ==
    [status |-> "EMPTY", latitude_rad |-> 0, longitude_rad |-> 0, speed_ms |-> 0,
     satellites_in_view |-> 0]

\* gps_update_info(&gps): copy the parser's fields into the caller's struct
gps_update_info(gps, parsed) ==
    [gps EXCEPT !.status = parsed.status,
                !.latitude_rad = parsed.latitude_rad,
                !.longitude_rad = parsed.longitude_rad,
                !.speed_ms = parsed.speed_ms,
                !.satellites_in_view = parsed.satellites_in_view]

\* ------------------------------------------------- sensors.c, lines 276-280
GpsSignalled(g, parsed) ==
    [g EXCEPT !.gps = gps_update_info(g.gps, parsed),
              !.i = @ + 1,
              !.run = @ + 1,
              !.calls = <<"xSemaphoreTake", "gps_update_info">>]

\* mutant: the timeout branch without the satellites_in_view reset of line 287
GpsTimeoutKeepsSatellites(g) ==
    [g EXCEPT !.gps.status = "EMPTY",
              !.led = "off",
              !.i = 0,
              !.run = 0,
              !.calls = <<"xSemaphoreTake_timeout", "led2_off">>]

\* ------------------------------------------------- sensors.c, lines 281-288
GpsTimeout(g) ==
    [g EXCEPT !.gps.status = "EMPTY",
              !.led = "off",
              !.i = 0,
              !.run = 0,
              !.gps.satellites_in_view = 0,
              !.calls = <<"xSemaphoreTake_timeout", "led2_off">>]

\* mutant: the comparison of line 293 written <= instead of <
FallbackSpeedAtFour(g, flying) ==
    IF g.gps.satellites_in_view <= MinSats /\ flying
    THEN [g EXCEPT !.gps.speed_ms = CruisingSpeed]
    ELSE g

\* ------------------------------------------------- sensors.c, lines 293-294
FallbackSpeed(g, flying) ==
    IF g.gps.satellites_in_view < MinSats /\ flying
    THEN [g EXCEPT !.gps.speed_ms = CruisingSpeed]
    ELSE g

\* mutant: line 296 without its test, the hook called in every cycle
PostProcessEveryCycle(g) == Call(g, "gluonscript_do")

\* ------------------------------------------------- sensors.c, lines 296-297
PostProcess(g) == IF g.i % 2 = 0 THEN Call(g, "gluonscript_do") ELSE g

\* mutant: the indicator's off window two cycles long instead of three
IndicatorShortWindow(g) ==
    IF /\ (g.i % 6 = 0 \/ (g.i + 1) % 6 = 0)
       /\ g.gps.status = "ACTIVE"
       /\ g.gps.satellites_in_view > 5
    THEN [g EXCEPT !.led = "off", !.calls = Append(@, "led2_off")]
    ELSE IF g.gps.status # "EMPTY"
         THEN [g EXCEPT !.led = "on", !.calls = Append(@, "led2_on")]
         ELSE g

\* ------------------------------------------------- sensors.c, lines 299-302
Indicator(g) ==
    IF /\ (g.i % 6 = 0 \/ (g.i + 1) % 6 = 0 \/ (g.i + 2) % 6 = 0)
       /\ g.gps.status = "ACTIVE"
       /\ g.gps.satellites_in_view > 5
    THEN [g EXCEPT !.led = "off", !.calls = Append(@, "led2_off")]
    ELSE IF g.gps.status # "EMPTY"
         THEN [g EXCEPT !.led = "on", !.calls = Append(@, "led2_on")]
         ELSE g

\* ------------------------------------------------- sensors.c, lines 273-303
GpsCycle(g, signalled, parsed, flying) ==
    Indicator(PostProcess(FallbackSpeed(
        IF signalled THEN GpsSignalled(g, parsed) ELSE GpsTimeout(g), flying)))

\* ------------------------------------------------- sensors.c, lines 242-254
gps_start ==
    /\ gps_pc = "start"
    /\ sensor_data' = [sensor_data EXCEPT !.gps.status = "EMPTY",
                                          !.gps.latitude_rad = 0,
                                          !.gps.longitude_rad = 0]
    /\ i' = PollFirst
    /\ gps_calls' = <<"gluonscript_init", "gps_open_port">>
    /\ gps_pc' = "poll"
    /\ polls' = 0
    /\ poll_delay' = 0
    /\ UNCHANGED <<cfgvars, svars, envvars, led2, xGpsSemaphore, run>>

\* mutant: the poll interval grown by its first value instead of doubled
gps_pollLinear ==
    /\ gps_pc = "poll"
    /\ i <= PollLast
    /\ \E valid \in BOOLEAN :
         /\ gps_calls' = IF valid THEN <<"gps_valid_frames_receiving">>
                         ELSE <<"gps_valid_frames_receiving", "vTaskDelay">>
         /\ poll_delay' = IF valid THEN poll_delay ELSE poll_delay + i
    /\ polls' = polls + 1
    /\ i' = i + PollFirst
    /\ UNCHANGED <<cfgvars, sensor_data, svars, envvars, gps_pc, led2, xGpsSemaphore, run>>

\* ------------------------------------------------- sensors.c, lines 254-258
gps_poll ==
    /\ gps_pc = "poll"
    /\ i <= PollLast
    /\ \E valid \in BOOLEAN :
         /\ gps_calls' = IF valid THEN <<"gps_valid_frames_receiving">>
                         ELSE <<"gps_valid_frames_receiving", "vTaskDelay">>
         /\ poll_delay' = IF valid THEN poll_delay ELSE poll_delay + i
    /\ polls' = polls + 1
    /\ i' = i * 2
    /\ UNCHANGED <<cfgvars, sensor_data, svars, envvars, gps_pc, led2, xGpsSemaphore, run>>

\* ------------------------------------------------- sensors.c, lines 254-270
gps_configure ==
    /\ gps_pc = "poll"
    /\ i > PollLast
    /\ led2' = IF sensor_data.gps.status = "EMPTY" THEN "off"
               ELSE IF sensor_data.gps.status = "VOID" THEN "on" ELSE led2
    /\ gps_calls' = <<"gps_config_output", "vTaskDelay">>
    /\ gps_pc' = "loop"
    /\ polls' = 0
    /\ poll_delay' = 0
    /\ UNCHANGED <<cfgvars, sensor_data, svars, envvars, i, xGpsSemaphore, run>>

\* ------------------------------------------------- sensors.c, lines 273-303
\* one iteration of the steady-state loop: the wait ends by the signal or by timeout
gps_cycle ==
    /\ gps_pc = "loop"
    /\ LET g0 == [gps |-> sensor_data.gps, i |-> i, led |-> led2, run |-> run,
                  calls |-> <<>>]
       IN \E g1 \in {GpsCycle(g0, xGpsSemaphore = 1, gps_parsed, airborne)} :
          /\ sensor_data' = [sensor_data EXCEPT !.gps = g1.gps]
          /\ i' = g1.i
          /\ led2' = g1.led
          /\ run' = g1.run
          /\ gps_calls' = g1.calls
    /\ xGpsSemaphore' = 0
    /\ UNCHANGED <<cfgvars, svars, envvars, gps_pc, hvars>>

\* --------------------------------------------------------- environment
\* uart2 interrupt: a complete sentence was parsed, the semaphore is given
Uart2Interrupt(sentences) ==
    /\ gps_pc # "start"
    /\ \E fix \in sentences : gps_parsed' = fix
    /\ xGpsSemaphore' = 1
    /\ UNCHANGED <<cfgvars, sensor_data, svars, gps_pc, i, led2, gps_calls, run, hvars,
                   xSpiSemaphore, simulation_mode, airborne>>

uart2_interrupt == Uart2Interrupt(Fixes)

\* the dataflash task takes and gives the SPI token
dataflash_take ==
    /\ xSpiSemaphore = "free"
    /\ xSpiSemaphore' = "dataflash"
    /\ UNCHANGED <<cfgvars, sensor_data, svars, gvars, simulation_mode, gps_parsed, airborne>>

dataflash_give ==
    /\ xSpiSemaphore = "dataflash"
    /\ xSpiSemaphore' = "free"
    /\ UNCHANGED <<cfgvars, sensor_data, svars, gvars, simulation_mode, gps_parsed, airborne>>

\* the communication task switches control_state.simulation_mode on
set_simulation_mode ==
    /\ ~simulation_mode
    /\ simulation_mode' = TRUE
    /\ UNCHANGED <<cfgvars, sensor_data, svars, gvars, xSpiSemaphore, gps_parsed, airborne>>

\* the navigation task sets and clears navigation_data.airborne
set_airborne ==
    /\ airborne' = ~airborne
    /\ UNCHANGED <<cfgvars, sensor_data, svars, gvars, xSpiSemaphore, simulation_mode,
                   gps_parsed>>

\* ---------------------------------------------------------------- Init
InitSensorData ==
    [acc_x_raw |-> <<0, 6>>, acc_z_raw |-> <<0, 1>>, acc_y_raw |-> <<0, 0>>,
     gyro_x_raw |-> <<0, 4>>, gyro_y_raw |-> <<0, 7>>, gyro_z_raw |-> <<0, 5>>,
     idg500_vref |-> <<0, 3>>,
     acc_x |-> Scaled(<<0, 6>>), acc_y |-> Scaled(<<0, 0>>), acc_z |-> Scaled(<<0, 1>>),
     p |-> Scaled(<<0, 4>>), q |-> Scaled(<<0, 7>>), r |-> Scaled(<<0, 5>>),
     battery_voltage_10 |-> NoSample, magnetometer_raw |-> -1,
     temperature_10 |-> 0, temperature |-> 0, pressure |-> 0, pressure_height |-> 0,
     vertical_speed |-> 0, gps |-> NoFix]

\* the state when sensors_task reaches its loop (lines 70-109) and
\* sensors_gps_task has not run yet
Init ==
    /\ HARDWARE_VERSION \in HardwareVersions
    /\ quad \in BOOLEAN
    /\ p2h \in HeightModels
    /\ sensor_data = InitSensorData
    /\ low_update_counter = 0
    /\ last_height = 0
    /\ dt_since_last_height = 0
    /\ temperature_10 = 200
    /\ sensors_alive = TRUE
    /\ adc_conv = 0
    /\ tick_no = 0
    /\ bmp085_pending = "none"
    /\ xSpiSemaphore = "free"
    /\ simulation_mode = FALSE
    /\ calls = <<>>
    /\ since_low_rate = 0
    /\ gps_pc = "start"
    /\ i = 0
    /\ led2 = "off"
    /\ xGpsSemaphore = 0
    /\ gps_parsed = NoFix
    /\ airborne = FALSE
    /\ gps_calls = <<>>
    /\ run = 0
    /\ polls = 0
    /\ poll_delay = 0

\* ------------------------------------------------------- specifications
\* the acquisition task with the dataflash task and the simulation switch
SensorsTick == low_update_counter < MaxCounter /\ sensors_task

NextSensors == SensorsTick \/ dataflash_take \/ dataflash_give \/ set_simulation_mode

SpecSensors == Init /\ [][NextSensors]_vars

\* the GPS task with the uart2 interrupt and the airborne flag
GpsCycleStep == gps_cycle /\ run' <= MaxRun

NextGps == gps_start \/ gps_poll \/ gps_configure \/ GpsCycleStep \/ uart2_interrupt
              \/ set_airborne

InitGps == Init /\ HARDWARE_VERSION = V01J /\ ~quad /\ p2h = CHOOSE h \in HeightModels : h[0, 0] = 1

SpecGps == InitGps /\ [][NextGps]_vars

\* the same, with the scheduler running the GPS task whenever it is ready: its
\* delays expire and its wait ends by the signal or after 205 ms
SpecGpsFair ==
    /\ InitGps /\ [][NextGps]_vars
    /\ WF_vars(gps_start) /\ WF_vars(gps_poll) /\ WF_vars(gps_configure)
    /\ WF_vars(GpsCycleStep)

\* both tasks, the uart2 interrupt and the other tasks' flags, on a short horizon
MaxCounterBoth == 10
MaxRunBoth == 2

FewFixes == {f \in Fixes : f.satellites_in_view = 6 /\ f.status = "ACTIVE"}

BothTick == low_update_counter < MaxCounterBoth /\ sensors_task

BothCycle == gps_cycle /\ run' <= MaxRunBoth

BothInterrupt == Uart2Interrupt(FewFixes)

\* the receiver delivers valid frames from the start: no poll is followed by a delay
BothPoll == gps_poll /\ poll_delay' = 0

Next == BothTick \/ gps_start \/ BothPoll \/ gps_configure \/ BothCycle \/ BothInterrupt

Spec == Init /\ [][Next]_vars

\* the acquisition task alone on the newer hardware, in steady air, with no
\* bound on the number of loop iterations (the counter passes its reset)
LongTick == SensorsTask({1000}, {215})

InitLong == Init /\ HARDWARE_VERSION = V01O /\ p2h = CHOOSE h \in HeightModels : h[0, 0] = 1

SpecLong == InitLong /\ [][LongTick]_vars

\* =================================================================== claims
\* a step of the acquisition task (every loop iteration moves the counter)
TickStep == low_update_counter' # low_update_counter

\* a step of the GPS task
GpsStep == gps_pc' # gps_pc \/ gps_calls' # gps_calls \/ i' # i

\* the last steady-state GPS cycle ended its wait by timeout / by the signal
LastCycleTimedOut ==
    gps_pc = "loop" /\ Len(gps_calls) > 0 /\ gps_calls[1] = "xSemaphoreTake_timeout"

LastCycleSignalled ==
    gps_pc = "loop" /\ Len(gps_calls) > 0 /\ gps_calls[1] = "xSemaphoreTake"

HookInvoked == "gluonscript_do" \in Range(gps_calls)

\* C1: a steady-state GPS cycle whose wait timed out ends with status EMPTY,
\* no satellites in view and the sequence counter at 0
C1_TimeoutResets ==
    LastCycleTimedOut =>
        /\ sensor_data.gps.status = "EMPTY"
        /\ sensor_data.gps.satellites_in_view = 0
        /\ i = 0

\* a timeout after a fix had been taken over (the parsed speed is still stored)
C1_Witness == LastCycleTimedOut /\ sensor_data.gps.speed_ms = 20

\* C2: at the end of every steady-state cycle the speed is the cruising speed if
\* fewer than 4 satellites are in view and the vehicle is airborne; otherwise it
\* is what the parser delivered in this cycle (signal) or what it was (timeout)
C2_FallbackSpeed ==
    [][gps_cycle =>
        LET after == sensor_data'.gps
        IN IF after.satellites_in_view < 4 /\ airborne
           THEN after.speed_ms = CruisingSpeed
           ELSE after.speed_ms = IF xGpsSemaphore = 1 THEN gps_parsed.speed_ms
                                 ELSE sensor_data.gps.speed_ms]_vars

\* a signalled cycle whose parsed speed of 20 was replaced by the cruising speed
C2_Witness ==
    /\ LastCycleSignalled
    /\ xGpsSemaphore = 0
    /\ gps_parsed.speed_ms = 20
    /\ sensor_data.gps.satellites_in_view = 3
    /\ sensor_data.gps.speed_ms = CruisingSpeed

\* C3: pressure_height is within [-30000, 30000] in every reachable state, on
\* both hardware generations
C3_HeightInRange ==
    sensor_data.pressure_height >= -HeightLimit /\ sensor_data.pressure_height <= HeightLimit

\* C4: on the legacy hardware a loop iteration with a sample ready and the SPI
\* token not available leaves pressure, temperature and pressure_height as they were
C4_NoWriteOnContention ==
    [][(TickStep /\ "xSemaphoreTake_failed" \in Range(calls')) =>
        /\ sensor_data'.pressure = sensor_data.pressure
        /\ sensor_data'.temperature = sensor_data.temperature
        /\ sensor_data'.pressure_height = sensor_data.pressure_height]_vars

\* C5: after every vertical-speed update |vertical_speed| <= max(5, gps.speed) as
\* read in that iteration: the smoothed value is stored if within that limit and
\* replaced by 0 otherwise
C5_VerticalSpeedClamp ==
    [][(TickStep /\ dt_since_last_height' = 0) =>
        LET dt == IF dt_since_last_height < MaxDt THEN dt_since_last_height + 1
                  ELSE dt_since_last_height
            v == TDiv(sensor_data.vertical_speed * 8, 10)
                 + TDiv(TDiv((sensor_data'.pressure_height - last_height)
                             * RatePerPeriod(quad), dt) * 2, 10)
            limit == IF sensor_data.gps.speed_ms > 5 THEN sensor_data.gps.speed_ms ELSE 5
        IN /\ sensor_data'.vertical_speed <= limit
           /\ -sensor_data'.vertical_speed <= limit
           /\ sensor_data'.vertical_speed = IF v <= limit /\ -v <= limit THEN v ELSE 0]_vars

\* an update that stored a climb rate above 5 m/s, allowed by the GPS speed
C5_Witness ==
    /\ low_update_counter > 0
    /\ dt_since_last_height = 0
    /\ sensor_data.vertical_speed > MinClamp

\* the fields of sensor_data outside the gps struct
NonGps(sd) == [f \in DOMAIN sd \ {"gps"} |-> sd[f]]

\* C6: the acquisition task never writes a field of sensor_data.gps (so the gps
\* fields keep their initial values while the GPS task has not run), and the GPS
\* task never writes a field outside sensor_data.gps
C6_FieldPartition ==
    /\ [](gps_pc = "start" => sensor_data.gps = NoFix)
    /\ [][/\ TickStep => sensor_data'.gps = sensor_data.gps
          /\ GpsStep => NonGps(sensor_data') = NonGps(sensor_data)]_vars

\* both tasks have written their fields
C6_Witness ==
    /\ low_update_counter > 0
    /\ sensor_data.pressure = 1000
    /\ sensor_data.gps.status = "ACTIVE"

\* the collaborator calls that touch hardware
HardwareCalls ==
    {"adc_get_channel", "adc_start", "bmp085_read_temp", "bmp085_start_convert_pressure",
     "bmp085_read_pressure", "bmp085_start_convert_temp", "scp1000_dataready",
     "xSemaphoreTake", "xSemaphoreTake_failed", "scp1000_get_pressure",
     "scp1000_get_temperature", "xSemaphoreGive", "hmc5843_read"}

\* C7: a loop iteration that begins with simulation_mode set deletes the task
\* before any hardware access
C7_SimulationStopsFirst ==
    [][(TickStep /\ simulation_mode) =>
        (~sensors_alive' /\ Range(calls') \cap HardwareCalls = {})]_vars

RawSamples(sd) ==
    {sd.acc_x_raw, sd.acc_y_raw, sd.acc_z_raw, sd.gyro_x_raw, sd.gyro_y_raw,
     sd.gyro_z_raw, sd.idg500_vref}

ScaledValues(sd) == {sd.acc_x, sd.acc_y, sd.acc_z, sd.p, sd.q, sd.r}

\* C8: in every loop iteration the seven channels are read before adc_start, so
\* after iteration N the raw and scaled IMU fields come from the conversion
\* started in iteration N-1, not from the one started in iteration N
C8_Pipelining ==
    calls # <<>> =>
        /\ FirstAt(calls, "adc_start", 1) = 8
        /\ \A k \in 1..7 : calls[k] = "adc_get_channel"
        /\ adc_conv = tick_no
        /\ \A x \in RawSamples(sensor_data) : x[1] = (tick_no + TickMod - 1) % TickMod
        /\ \A y \in ScaledValues(sensor_data) : y.of \in RawSamples(sensor_data)

\* the second loop iteration has run
C8_Witness == calls # <<>> /\ low_update_counter = 2 * CounterStep(quad)

\* C9: on the newer hardware consecutive low-rate iterations alternate between
\* the temperature phase and the pressure phase, also across the counter reset
C9_PhasesAlternate ==
    [][/\ (TickStep /\ "bmp085_read_temp" \in Range(calls')) => bmp085_pending # "pressure"
       /\ (TickStep /\ "bmp085_read_pressure" \in Range(calls')) => bmp085_pending # "temp"]_vars

C11_IndicatorPolicy ==
    (LastCycleTimedOut \/ LastCycleSignalled) =>
        LET gps == sensor_data.gps
            window == i % 6 = 0 \/ i % 6 = 5 \/ i % 6 = 4
        IN /\ (window /\ gps.status = "ACTIVE" /\ gps.satellites_in_view > 5) => led2 = "off"
           /\ (~(window /\ gps.status = "ACTIVE" /\ gps.satellites_in_view > 5)
                 /\ gps.status # "EMPTY") => led2 = "on"
           /\ gps.status = "EMPTY" => led2 = "off"

\* a signalled cycle in the last cycle of the window, with a good fix: indicator off
C11_Witness ==
    /\ LastCycleSignalled
    /\ i % 6 = 4
    /\ sensor_data.gps.status = "ACTIVE"
    /\ sensor_data.gps.satellites_in_view = 6
    /\ led2 = "off"

\* the loop iteration just taken found a sample ready and the SPI token held elsewhere
ContendedTick == TickStep /\ "xSemaphoreTake_failed" \in Range(calls')

\* the loop iteration just taken ran to its end: the attitude filter was called
\* last and the task is alive for its next vTaskDelayUntil
TickCompleted == calls'[Len(calls')] = "ahrs_filter" /\ sensors_alive'

\* C12: contention for the SPI token never stalls the acquisition task: an
\* iteration that finds the token held elsewhere runs to completion while the
\* token stays held, and the task stops only through the simulation switch
C12_NoStall ==
    /\ [](~sensors_alive => simulation_mode)
    /\ [][ContendedTick =>
            /\ TickCompleted
            /\ xSpiSemaphore = "dataflash"
            /\ xSpiSemaphore' = "dataflash"]_vars

\* two iterations in a row found the token held by the dataflash and completed
C12_Witness ==
    /\ xSpiSemaphore = "dataflash"
    /\ sensors_alive
    /\ low_update_counter = 2 * CounterStep(quad)
    /\ "xSemaphoreTake_failed" \in Range(calls)
    /\ calls[Len(calls)] = "ahrs_filter"
    /\ sensor_data.pressure = 0

\* C13: on the legacy hardware an iteration with a sample ready and the SPI token
\* not available is a complete skip: vertical_speed and the last height keep
\* their values and the time since the last height is not reset
C13_ContendedTickSkips ==
    [][ContendedTick =>
        /\ sensor_data'.vertical_speed = sensor_data.vertical_speed
        /\ last_height' = last_height
        /\ dt_since_last_height' > 0]_vars

\* C14: on the newer hardware every barometer read takes the result of a
\* conversion of the same kind that the task started at the preceding low-rate
\* iteration, also the first read after initialisation and after the counter reset
C14_ReadMatchesConversion ==
    [][/\ (TickStep /\ "bmp085_read_temp" \in Range(calls')) => bmp085_pending = "temp"
       /\ (TickStep /\ "bmp085_read_pressure" \in Range(calls')) => bmp085_pending = "pressure"]_vars

\* C15: the low-rate step runs at a constant cadence: every iteration that takes
\* it comes 50 / step iterations after the last one (50 with step 1, 10 with
\* step 5), also across the counter reset
C15_ConstantCadence ==
    [][(TickStep /\ low_update_counter' % LowRateDiv = 0) =>
        since_low_rate + 1 = LowRateDiv \div CounterStep(quad)]_vars

\* C16: within a loop iteration no ADC channel is read after adc_start, the
\* battery channel of the low-rate step included
C16_NoReadAfterStart ==
    \A a, b \in DOMAIN calls :
        (calls[a] = "adc_start" /\ calls[b] = "adc_get_channel") => b < a

\* C17: the GPS start-up handshake always ends: it polls at most 7 times with
\* delays of 10, 20, ... ms (doubling while at most 1000) and at most 1270 ms in
\* total, takes no delay after a poll that reports valid frames, and then the
\* task configures the receiver and enters its loop, whatever the polls reported
C17_HandshakeTerminates ==
    /\ <>(gps_pc = "loop")
    /\ [](gps_pc = "poll" =>
            /\ polls <= 7
            /\ i = PollFirst * 2^polls
            /\ poll_delay <= 1270)
    /\ [][polls' = polls + 1 =>
            /\ i <= PollLast
            /\ gps_calls' = <<"gps_valid_frames_receiving">> => poll_delay' = poll_delay
            /\ gps_calls' # <<"gps_valid_frames_receiving">> => poll_delay' = poll_delay + i]_vars
    /\ [][(gps_pc = "poll" /\ gps_pc' = "loop") =>
            gps_calls' = <<"gps_config_output", "vTaskDelay">>]_vars

\* the handshake has ended without a single poll reporting valid frames
C17_Witness == gps_pc = "poll" /\ i > PollLast /\ polls = 7 /\ poll_delay = 1270

\* C18: the counter grows by the fixed step (1 or 5) in every loop iteration
\* except where it is reset to 0; it is at most 65000 whenever it is used in a
\* modulus test, and its largest transient value, 65000 + step, fits in 16 bits
C18_CounterBounded ==
    /\ [](low_update_counter <= CounterLimit)
    /\ [][TickStep =>
            LET c == low_update_counter + CounterStep(quad)
            IN /\ c <= CounterLimit + CounterStep(quad)
               /\ c <= 65535
               /\ low_update_counter' = IF c > CounterLimit THEN 0 ELSE c]_vars

\* the iteration after the counter had reached 65000: the counter was reset
C18_Witness ==
    /\ low_update_counter = 0
    /\ calls # <<>>
    /\ bmp085_pending = "pressure"

\* the positions of call c in the call sequence cs
At(cs, c) == {k \in DOMAIN cs : cs[k] = c}

\* C19: the acquisition task holds the SPI token only between a successful
\* try-acquire and the release in the same loop iteration: the legacy barometer
\* is read only in between, the token is given only after it was taken, it is
\* taken only when no other task holds it and is back before the iteration ends;
\* on the newer hardware the task never tries to take it
C19_TokenDiscipline ==
    [][TickStep =>
        LET takes == At(calls', "xSemaphoreTake")
            fails == At(calls', "xSemaphoreTake_failed")
            gives == At(calls', "xSemaphoreGive")
            reads == At(calls', "scp1000_get_pressure") \cup At(calls', "scp1000_get_temperature")
        IN /\ Cardinality(takes) + Cardinality(fails) <= 1
           /\ Cardinality(gives) = Cardinality(takes)
           /\ \A g \in gives : \E t \in takes : t < g
           /\ \A r \in reads : \E t \in takes, g \in gives : t < r /\ r < g
           /\ takes # {} => xSpiSemaphore = "free"
           /\ fails # {} => xSpiSemaphore = "dataflash"
           /\ xSpiSemaphore' = xSpiSemaphore
           /\ HARDWARE_VERSION >= V01O => takes \cup fails \cup gives \cup reads = {}]_vars

\* a legacy iteration that took the token, read the barometer and gave the token
\* back, after which the dataflash took it
C19_Witness ==
    /\ HARDWARE_VERSION < V01O
    /\ "xSemaphoreGive" \in Range(calls)
    /\ sensor_data.pressure = 1000
    /\ xSpiSemaphore = "dataflash"

\* C20: in the steady-state loop the sequence counter always equals the number of
\* cycles in a row that received the signal since the last timeout, or since the
\* loop was entered if none has timed out yet (0 on entry, 1 after a first
\* signalled cycle)
C20_CounterCountsSignals == gps_pc = "loop" => i = run

====
